---- MODULE Spec2Model ----
(***************************************************************************)
(* A model of the WAD archive reader of doompp (src/src/main.cpp):         *)
(* WadReader, WadHeader, WadLump, WadDirectory, WadFile, LumpIndex and     *)
(* WadManager.  Files are sequences of bytes; the reader is the ifstream   *)
(* with its position and its state bits; a thrown exception is the "exc"   *)
(* field of the record an operation returns.                               *)
(***************************************************************************)
EXTENDS Integers, Sequences, FiniteSets, TLC

VARIABLES files, wad, last

vars == <<files, wad, last>>

(***************************************************************************)
(* Bounds of the model.                                                    *)
(***************************************************************************)
\* The most archives a WadManager holds in the model.
MaxFiles == 2
\* The most directory entries a generated file holds.
MaxLumps == 2

(***************************************************************************)
(* Sizes the program fixes.                                                *)
(***************************************************************************)
\* sizeof(Sint32), the bytes readInt extracts.
IntSize == 4
\* The bytes of the header's id, reader.readString(4).
IdSize == 4
\* The bytes of a lump's name, reader.readString(8).
NameSize == 8

(***************************************************************************)
(* Exceptions.  "what" is the message with the lump's name taken out of    *)
(* it, "name" is that name.                                                *)
(***************************************************************************)
NoExc == [what |-> "none", name |-> <<>>]

Throw(what, name) == [what |-> what, name |-> name]

\* std::ios_base::failure, thrown by the stream itself under the mask
\* failbit | badbit.
IosFailure == Throw("ios_base::failure", <<>>)

(***************************************************************************)
(* Strings are sequences of character codes.                               *)
(***************************************************************************)
IWAD == <<73, 87, 65, 68>>
PWAD == <<80, 87, 65, 68>>

(***************************************************************************)
(* WadReader: the ifstream.  bytes is the file, pos the get position,      *)
(* failbit and eofbit the stream's state (badbit is never set by a file    *)
(* of the model).                                                          *)
(***************************************************************************)
\* "auto v{value}; rest": the value is computed once and named in what follows.
Bind(value, Rest(_)) == CHOOSE out \in {Rest(v) : v \in {value}} : TRUE

Min(a, b) == IF a < b THEN a ELSE b

Max(a, b) == IF a < b THEN b ELSE a

\* The stream's good(): no state bit is set.
Good(reader) == ~reader.failbit /\ ~reader.eofbit

\* WadReader::WadReader.  disk is the file's bytes, or <<-1>> for a path that
\* cannot be opened: the ifstream's constructor then sets failbit, and
\* wad.exceptions(failbit | badbit) throws at once.
WadReader_ctor(disk) ==
    IF disk = <<-1>>
    THEN [exc |-> IosFailure,
          reader |-> [bytes |-> <<>>, pos |-> 0, failbit |-> TRUE, eofbit |-> FALSE]]
    ELSE [exc |-> NoExc,
          reader |-> [bytes |-> disk, pos |-> 0, failbit |-> FALSE, eofbit |-> FALSE]]

\* WadReader::seek, wad.seekg(pos): seekg first clears eofbit, and clear()
\* throws when a bit of the mask (failbit) is still set; otherwise it moves the
\* position (a position past the end is accepted; a negative one fails).
WadReader_seek(reader, pos) ==
    LET cleared == [reader EXCEPT !.eofbit = FALSE]
    IN  IF cleared.failbit
        THEN [exc |-> IosFailure, reader |-> cleared]
        ELSE IF pos < 0
             THEN [exc |-> IosFailure, reader |-> [cleared EXCEPT !.failbit = TRUE]]
             ELSE [exc |-> NoExc, reader |-> [cleared EXCEPT !.pos = pos]]

\* WadReader::read, wad.read(buffer, count) and the gcount test.  A stream that
\* is not good sets failbit in the sentry and throws; a read that meets the end
\* of the file sets eofbit | failbit and throws; the gcount test follows.
WadReader_read(reader, count) ==
    IF ~Good(reader)
    THEN [exc |-> IosFailure, reader |-> [reader EXCEPT !.failbit = TRUE], buffer |-> <<>>]
    ELSE LET avail  == Max(0, Len(reader.bytes) - reader.pos)
             gcount == Min(count, avail)
             buffer == SubSeq(reader.bytes, reader.pos + 1, reader.pos + gcount)
             moved  == [reader EXCEPT !.pos = reader.pos + gcount]
         IN  IF gcount < count
             THEN [exc |-> IosFailure,
                   reader |-> [moved EXCEPT !.failbit = TRUE, !.eofbit = TRUE],
                   buffer |-> buffer]
             ELSE IF gcount # count
                  THEN [exc |-> Throw("Failed to extract bytes", <<>>),
                        reader |-> moved, buffer |-> buffer]
                  ELSE [exc |-> NoExc, reader |-> moved, buffer |-> buffer]

\* SDL_SwapLE32 of the four bytes read into a Sint32: little-endian, two's
\* complement.
SwapLE32(b) ==
    b[1] + 256 * b[2] + 65536 * b[3]
      + 16777216 * (IF b[4] >= 128 THEN b[4] - 256 ELSE b[4])

\* WadReader::readInt.
WadReader_readInt(reader) ==
    Bind(WadReader_read(reader, IntSize), LAMBDA r :
        [exc |-> r.exc, reader |-> r.reader,
         value |-> IF r.exc = NoExc THEN SwapLE32(r.buffer) ELSE 0])

\* The loop of readString: the index of the first '\0' of the buffer, or its
\* size.
RECURSIVE FirstNul(_, _)
FirstNul(buffer, i) ==
    IF i >= Len(buffer) THEN i
    ELSE IF buffer[i + 1] = 0 THEN i
    ELSE FirstNul(buffer, i + 1)

\* WadReader::readString.
WadReader_readString(reader, size) ==
    Bind(WadReader_read(reader, size), LAMBDA r :
        [exc |-> r.exc, reader |-> r.reader,
         value |-> IF r.exc = NoExc
                   THEN SubSeq(r.buffer, 1, FirstNul(r.buffer, 0))
                   ELSE <<>>])

(***************************************************************************)
(* WadHeader.                                                              *)
(***************************************************************************)
NoHeader == [id |-> <<>>, num_lumps |-> 0, directory_ofs |-> 0]

\* The header's tests with the lump count tested before the id.
WadHeader_validate_count_first(header) ==
    IF header.num_lumps <= 0
    THEN Throw("WAD contains invalid number of lumps", <<>>)
    ELSE IF header.id # IWAD /\ header.id # PWAD
    THEN Throw("WAD contains invalid id", <<>>)
    ELSE IF header.directory_ofs <= 0
    THEN Throw("WAD contains invalid directory offset", <<>>)
    ELSE NoExc

\* The three tests of the constructor's body, in their order.
WadHeader_validate(header) ==
    IF header.id # IWAD /\ header.id # PWAD
    THEN Throw("WAD contains invalid id", <<>>)
    ELSE IF header.num_lumps <= 0
    THEN Throw("WAD contains invalid number of lumps", <<>>)
    ELSE IF header.directory_ofs <= 0
    THEN Throw("WAD contains invalid directory offset", <<>>)
    ELSE NoExc

\* WadHeader::WadHeader: the members are read in their declaration order, then
\* validated.
WadHeader_ctor(reader) ==
    Bind(WadReader_readString(reader, IdSize), LAMBDA a :
    IF a.exc # NoExc THEN [exc |-> a.exc, reader |-> a.reader, header |-> NoHeader] ELSE
    Bind(WadReader_readInt(a.reader), LAMBDA b :
    IF b.exc # NoExc THEN [exc |-> b.exc, reader |-> b.reader, header |-> NoHeader] ELSE
    Bind(WadReader_readInt(b.reader), LAMBDA c :
    IF c.exc # NoExc THEN [exc |-> c.exc, reader |-> c.reader, header |-> NoHeader] ELSE
    Bind([id |-> a.value, num_lumps |-> b.value, directory_ofs |-> c.value], LAMBDA header :
    IF WadHeader_validate(header) # NoExc
    THEN [exc |-> WadHeader_validate(header), reader |-> c.reader, header |-> NoHeader]
    ELSE [exc |-> NoExc, reader |-> c.reader, header |-> header]))))

(***************************************************************************)
(* WadLump.                                                                *)
(***************************************************************************)
NoLump == [position |-> 0, size |-> 0, name |-> <<>>]

\* The lump's tests with the size tested before the position.
WadLump_validate_size_first(lump) ==
    IF lump.size < 0
    THEN Throw("Lump contains invalid size!", lump.name)
    ELSE IF lump.position < 0
    THEN Throw("Lump contains invalid data offset!", lump.name)
    ELSE NoExc

\* The two tests of the constructor's body, in their order.
WadLump_validate(lump) ==
    IF lump.position < 0
    THEN Throw("Lump contains invalid data offset!", lump.name)
    ELSE IF lump.size < 0
    THEN Throw("Lump contains invalid size!", lump.name)
    ELSE NoExc

\* WadLump::WadLump: position, size and name are read, then validated.
WadLump_ctor(reader) ==
    Bind(WadReader_readInt(reader), LAMBDA a :
    IF a.exc # NoExc THEN [exc |-> a.exc, reader |-> a.reader, lump |-> NoLump] ELSE
    Bind(WadReader_readInt(a.reader), LAMBDA b :
    IF b.exc # NoExc THEN [exc |-> b.exc, reader |-> b.reader, lump |-> NoLump] ELSE
    Bind(WadReader_readString(b.reader, NameSize), LAMBDA c :
    IF c.exc # NoExc THEN [exc |-> c.exc, reader |-> c.reader, lump |-> NoLump] ELSE
    Bind([position |-> a.value, size |-> b.value, name |-> c.value], LAMBDA lump :
    IF WadLump_validate(lump) # NoExc
    THEN [exc |-> WadLump_validate(lump), reader |-> c.reader, lump |-> NoLump]
    ELSE [exc |-> NoExc, reader |-> c.reader, lump |-> lump]))))

\* WadLump::isMarker.
isMarker(lump) == lump.size = 0

(***************************************************************************)
(* WadDirectory.  lumps is the vector (lumps[i] of the code is lumps[i+1]  *)
(* here); lump_map is the unordered_map, a function from the names it      *)
(* holds to the Sint32 stored with each.  Its keys are string_views of the *)
(* names in lumps: the vector is reserved before the loop and is moved,    *)
(* never copied or grown, afterwards (WadDirectory and WadFile are moved   *)
(* by a buffer steal), so every view keeps reading its name.               *)
(***************************************************************************)
NoDirectory == [lumps |-> <<>>, lump_map |-> <<>>]

\* A map that lets a later insertion replace the stored index (insert_or_assign).
try_emplace_assigning(lump_map, key, value) ==
    [k \in DOMAIN lump_map \cup {key} |-> IF k = key THEN value ELSE lump_map[k]]

\* lump_map.try_emplace(key, value): a key already in the map keeps its value.
try_emplace(lump_map, key, value) ==
    IF key \in DOMAIN lump_map THEN lump_map ELSE lump_map @@ (key :> value)

\* The loop of WadDirectory::WadDirectory from index i on.
RECURSIVE WadDirectory_loop(_, _, _, _)
WadDirectory_loop(reader, directory, i, num_lumps) ==
    IF i >= num_lumps
    THEN [exc |-> NoExc, reader |-> reader, directory |-> directory]
    ELSE Bind(WadLump_ctor(reader), LAMBDA e :
         IF e.exc # NoExc
         THEN [exc |-> e.exc, reader |-> e.reader, directory |-> NoDirectory]
         ELSE Bind([lumps |-> Append(directory.lumps, e.lump),
                    lump_map |-> try_emplace(directory.lump_map, e.lump.name, i)],
                   LAMBDA next :
              Bind(i + 1, LAMBDA j :
              WadDirectory_loop(e.reader, next, j, num_lumps))))

\* WadDirectory::WadDirectory.
WadDirectory_ctor(reader, header) ==
    Bind(WadReader_seek(reader, header.directory_ofs), LAMBDA s :
    Bind(header.num_lumps, LAMBDA num_lumps :
        IF s.exc # NoExc
        THEN [exc |-> s.exc, reader |-> s.reader, directory |-> NoDirectory]
        ELSE WadDirectory_loop(s.reader, NoDirectory, 0, num_lumps)))

NoIndex == [has_value |-> FALSE, value |-> 0]

\* WadDirectory::searchLump.
WadDirectory_searchLump(directory, lump_name) ==
    IF lump_name \notin DOMAIN directory.lump_map
    THEN NoIndex
    ELSE [has_value |-> TRUE, value |-> directory.lump_map[lump_name]]

\* getLump with its upper test off by one: lumps[lumps.size()] is read, and
\* whatever lies there is returned.
WadDirectory_getLump_past_end(directory, lump_index) ==
    IF lump_index < 0 \/ lump_index > Len(directory.lumps)
    THEN [exc |-> Throw("No valid lump index", <<>>), lump |-> NoLump]
    ELSE [exc |-> NoExc,
          lump |-> IF lump_index = Len(directory.lumps) THEN NoLump
                   ELSE directory.lumps[lump_index + 1]]

\* WadDirectory::getLump.
WadDirectory_getLump(directory, lump_index) ==
    IF lump_index < 0 \/ lump_index >= Len(directory.lumps)
    THEN [exc |-> Throw("No valid lump index", <<>>), lump |-> NoLump]
    ELSE [exc |-> NoExc, lump |-> directory.lumps[lump_index + 1]]

(***************************************************************************)
(* WadFile.                                                                *)
(***************************************************************************)
\* WadFile::WadFile: reader, header and directory in their declaration order.
\* file is what the constructor had built when it ended.
WadFile_ctor(disk) ==
    Bind(WadReader_ctor(disk), LAMBDA r :
    IF r.exc # NoExc
    THEN [exc |-> r.exc,
          file |-> [reader |-> r.reader, header |-> NoHeader, directory |-> NoDirectory]]
    ELSE
    Bind(WadHeader_ctor(r.reader), LAMBDA h :
    IF h.exc # NoExc
    THEN [exc |-> h.exc,
          file |-> [reader |-> h.reader, header |-> NoHeader, directory |-> NoDirectory]]
    ELSE
    Bind(WadDirectory_ctor(h.reader, h.header), LAMBDA d :
    [exc |-> d.exc,
     file |-> [reader |-> d.reader, header |-> h.header, directory |-> d.directory]])))

\* WadFile::searchLump.
WadFile_searchLump(file, lump_name) ==
    WadDirectory_searchLump(file.directory, lump_name)

\* WadFile::getLump.
WadFile_getLump(file, lump_index) ==
    WadDirectory_getLump(file.directory, lump_index)

\* getLumpData without its reader.seek(lump.position).
WadFile_getLumpData_unsought(file, lump_index) ==
    Bind(WadFile_getLump(file, lump_index), LAMBDA g :
    IF g.exc # NoExc THEN [exc |-> g.exc, file |-> file, lump_data |-> <<>>] ELSE
    Bind(WadReader_read(file.reader, g.lump.size), LAMBDA r :
    [exc |-> r.exc, file |-> [file EXCEPT !.reader = r.reader],
     lump_data |-> IF r.exc = NoExc THEN r.buffer ELSE <<>>]))

\* WadFile::getLumpData: file is the WadFile after the call.
WadFile_getLumpData(file, lump_index) ==
    Bind(WadFile_getLump(file, lump_index), LAMBDA g :
    IF g.exc # NoExc THEN [exc |-> g.exc, file |-> file, lump_data |-> <<>>] ELSE
    Bind(WadReader_seek(file.reader, g.lump.position), LAMBDA s :
    IF s.exc # NoExc
    THEN [exc |-> s.exc, file |-> [file EXCEPT !.reader = s.reader], lump_data |-> <<>>]
    ELSE
    Bind(WadReader_read(s.reader, g.lump.size), LAMBDA r :
    IF r.exc # NoExc
    THEN [exc |-> r.exc, file |-> [file EXCEPT !.reader = r.reader], lump_data |-> <<>>]
    ELSE [exc |-> NoExc, file |-> [file EXCEPT !.reader = r.reader],
          lump_data |-> r.buffer])))

(***************************************************************************)
(* LumpIndex and WadManager.                                               *)
(***************************************************************************)
\* LumpIndex::LumpIndex.
LumpIndex(w, lump) == [wad |-> w, lump |-> lump]

\* The Sint32 values of the model that an overflowing index.lump + inc may
\* leave in the sum: signed overflow is undefined, so the sum is any of them.
MinSint32 == -2147483647 - 1

MaxSint32 == 2147483647

OverflowedSums == {MinSint32, -1, 0, 1, MaxSint32}

\* operator+(const LumpIndex&, const Sint32&): the indexes the sum may be.
LumpIndex_plus(index, inc) ==
    IF \/ (inc > 0 /\ index.lump > MaxSint32 - inc)
       \/ (inc < 0 /\ index.lump < MinSint32 - inc)
    THEN {LumpIndex(index.wad, s) : s \in OverflowedSums}
    ELSE {LumpIndex(index.wad, index.lump + inc)}

NoLumpIndex == [has_value |-> FALSE, value |-> LumpIndex(0, 0)]

\* The loop of WadManager::searchLump from index i on.
RECURSIVE WadManager_searchLump_from(_, _, _)
WadManager_searchLump_from(fs, lump_name, i) ==
    IF i >= Len(fs) THEN NoLumpIndex
    ELSE Bind(WadFile_searchLump(fs[i + 1], lump_name), LAMBDA lump :
         IF lump.has_value
         THEN [has_value |-> TRUE, value |-> LumpIndex(i, lump.value)]
         ELSE Bind(i + 1, LAMBDA j : WadManager_searchLump_from(fs, lump_name, j)))

\* The scan of searchLump run from the last archive down to the first.
RECURSIVE WadManager_searchLump_down(_, _, _)
WadManager_searchLump_down(fs, lump_name, i) ==
    IF i < 0 THEN NoLumpIndex
    ELSE Bind(WadFile_searchLump(fs[i + 1], lump_name), LAMBDA lump :
         IF lump.has_value
         THEN [has_value |-> TRUE, value |-> LumpIndex(i, lump.value)]
         ELSE Bind(i - 1, LAMBDA j : WadManager_searchLump_down(fs, lump_name, j)))

WadManager_searchLump_last_first(fs, lump_name) ==
    WadManager_searchLump_down(fs, lump_name, Len(fs) - 1)

\* WadManager::searchLump.
WadManager_searchLump(fs, lump_name) ==
    WadManager_searchLump_from(fs, lump_name, 0)

\* A vector that keeps the element a throwing constructor left behind.
vector_emplace_back_partial(fs, disk) ==
    Bind(WadFile_ctor(disk), LAMBDA c : [exc |-> c.exc, files |-> Append(fs, c.file)])

\* A vector that puts the new archive in front of the others.
vector_emplace_front(fs, disk) ==
    Bind(WadFile_ctor(disk), LAMBDA c :
        [exc |-> c.exc, files |-> IF c.exc = NoExc THEN <<c.file>> \o fs ELSE fs])

\* files.emplace_back(wad_file): the WadFile is constructed in the vector's
\* storage, and a constructor that throws leaves the vector as it was.  When
\* the vector grows, the archives it holds are moved (WadFile's move
\* constructor is noexcept): the stream keeps its position and state, the
\* header its fields, the directory its buffer of lumps and its map.
vector_emplace_back(fs, disk) ==
    Bind(WadFile_ctor(disk), LAMBDA c :
        [exc |-> c.exc, files |-> IF c.exc = NoExc THEN Append(fs, c.file) ELSE fs])

\* WadManager::hasLump.
WadManager_hasLump(fs, lump_name) ==
    WadManager_searchLump(fs, lump_name) # NoLumpIndex

\* WadManager::getLumpIndex.
WadManager_getLumpIndex(fs, lump_name) ==
    Bind(WadManager_searchLump(fs, lump_name), LAMBDA lump_index :
        IF lump_index.has_value
        THEN [exc |-> NoExc, index |-> lump_index.value]
        ELSE [exc |-> Throw("Could not find lump", lump_name), index |-> LumpIndex(0, 0)])

\* WadManager::getLumpData(const LumpIndex&), for an index whose wad is an
\* index of files: files is the vector after the call.
WadManager_getLumpData(fs, lump_index) ==
    Bind(WadFile_getLumpData(fs[lump_index.wad + 1], lump_index.lump), LAMBDA d :
        [exc |-> d.exc, files |-> [fs EXCEPT ![lump_index.wad + 1] = d.file],
         lump_data |-> d.lump_data])

\* WadManager::getLumpData(const string_view).
WadManager_getLumpDataByName(fs, lump_name) ==
    Bind(WadManager_getLumpIndex(fs, lump_name), LAMBDA lump_index :
        IF lump_index.exc # NoExc
        THEN [exc |-> lump_index.exc, files |-> fs, lump_data |-> <<>>]
        ELSE WadManager_getLumpData(fs, lump_index.index))

(***************************************************************************)
(* The files on disk.  A path names a file by what was written to it: the  *)
(* header's three fields, the directory's entries, and how the file was    *)
(* cut.  A file is its 12-byte header, 3 bytes of lump data (the first     *)
(* three characters of its tag) and its directory, one 16-byte record per  *)
(* entry.                                                                   *)
(***************************************************************************)
\* The four bytes of a Sint32 as written to a file, least significant first.
LE32(v) ==
    <<v % 256, (v \div 256) % 256, (v \div 65536) % 256, (v \div 16777216) % 256>>

RECURSIVE EntryBytes(_)
EntryBytes(entries) ==
    IF entries = <<>> THEN <<>>
    ELSE LE32(entries[1].position) \o LE32(entries[1].size) \o entries[1].name
             \o EntryBytes(Tail(entries))

HeaderBytes(path) == path.tag \o LE32(path.num_lumps) \o LE32(path.directory_ofs)

DataBytes(path) == SubSeq(path.tag, 1, 3)

\* The bytes of a header and of a directory entry.
HeaderSize == IdSize + IntSize + IntSize

EntrySize == IntSize + IntSize + NameSize

\* Where the lump data and the directory of a file start.
DataOfs == HeaderSize

DirectoryOfs == DataOfs + Len(DataBytes([tag |-> IWAD]))

WholeFile(path) == HeaderBytes(path) \o DataBytes(path) \o EntryBytes(path.entries)

\* The bytes of the file a path names; <<-1>> when no file can be opened.
Disk(path) ==
    CASE path.cut = "missing"   -> <<-1>>
      [] path.cut = "header"    -> SubSeq(WholeFile(path), 1, IdSize + IntSize)
      [] path.cut = "directory" -> SubSeq(WholeFile(path), 1, Len(WholeFile(path)) - 3)
      [] OTHER                  -> WholeFile(path)

\* Lump names, as readString returns them, and the 8 bytes written for each.
NameX == <<88>>

NameY == <<89>>

NameZ == <<90>>

NameLong == <<65, 66, 67, 68, 69, 70, 71, 72>>

FieldX == <<88, 0, 0, 0, 0, 0, 0, 0>>

FieldY == <<89, 0, 0, 0, 0, 0, 0, 0>>

\* "X", a nul, and bytes after it that readString drops.
FieldXJunk == <<88, 0, 90, 0, 0, 0, 0, 0>>

Entry(position, size, name) == [position |-> position, size |-> size, name |-> name]

\* A size that reaches past the end of every file of the model.
PastSize == EntrySize * (MaxLumps + 3)

\* The entries a directory may hold: lumps inside the file, a marker, a lump
\* that reaches past the end of the file, and entries with a negative field.
GoodEntries ==
    {Entry(DataOfs, 2, n) : n \in {FieldX, FieldY, FieldXJunk, NameLong}}
      \cup {Entry(DataOfs + 2, 0, n) : n \in {FieldX, FieldY}}
      \cup {Entry(DataOfs + 1, PastSize, n) : n \in {FieldX, FieldY}}

BadEntries ==
    {Entry(-1, 2, n) : n \in {FieldX, FieldY}}
      \cup {Entry(DataOfs, -1, n) : n \in {FieldX, FieldY}}
      \cup {Entry(-1, -1, FieldX)}

Directories ==
    UNION {[1..n -> GoodEntries \cup BadEntries] : n \in 1..MaxLumps}

Path(tag, num_lumps, directory_ofs, entries, cut) ==
    [tag |-> tag, num_lumps |-> num_lumps, directory_ofs |-> directory_ofs,
     entries |-> entries, cut |-> cut]

\* Files that differ in their header: every tag, lump count and directory
\* offset, over one entry, whole, cut inside the header, or missing.
HeaderPaths ==
    {Path(tag, n, ofs, <<Entry(DataOfs, 2, FieldX)>>, cut) :
        tag \in {IWAD, PWAD, <<88, 87, 65, 68>>, <<73, 87, 65, 0>>},
        n \in {1, 0, -1, 2},
        ofs \in {DirectoryOfs, 0, -3, 40},
        cut \in {"none", "header", "missing"}}

\* Files that differ in their directory, whole or cut inside the last entry.
DirectoryPaths ==
    {Path(IWAD, Len(entries), DirectoryOfs, entries, cut) :
        entries \in Directories, cut \in {"none", "directory"}}

AllPaths == HeaderPaths \cup DirectoryPaths

\* The files a WadManager is given: a base archive with a lump that reaches
\* past the end of the file, a patch archive, an archive with one name twice,
\* and files that fail to open at each step of the construction.
BaseWad ==
    Path(IWAD, 2, DirectoryOfs,
         <<Entry(DataOfs, 2, FieldX), Entry(DataOfs + 1, PastSize, FieldY)>>, "none")

PatchWad ==
    Path(PWAD, 2, DirectoryOfs,
         <<Entry(DataOfs + 1, 2, FieldY), Entry(DataOfs, 3, FieldX)>>, "none")

TwiceWad ==
    Path(IWAD, 2, DirectoryOfs,
         <<Entry(DataOfs + 2, 0, FieldXJunk), Entry(DataOfs, 2, FieldX)>>, "none")

BrokenWads ==
    {[BaseWad EXCEPT !.cut = "missing"],
     [BaseWad EXCEPT !.cut = "header"],
     [BaseWad EXCEPT !.cut = "directory"],
     [BaseWad EXCEPT !.tag = <<88, 87, 65, 68>>],
     [BaseWad EXCEPT !.num_lumps = 0],
     [BaseWad EXCEPT !.directory_ofs = 0],
     [BaseWad EXCEPT !.num_lumps = 3],
     [BaseWad EXCEPT !.entries[2] = Entry(-1, 2, FieldY)],
     [BaseWad EXCEPT !.entries[2] = Entry(DataOfs, -1, FieldY)]}

ManagerPaths == {BaseWad, PatchWad, TwiceWad} \cup BrokenWads

\* The names and indexes the callers ask for.
Names == {NameX, NameY, NameZ, NameLong}

Indexes == (-1)..(MaxLumps + 1)

Incs == {-1, 0, 1, 2, MaxSint32}

(***************************************************************************)
(* The state: files is WadManager::files, wad a WadFile a caller opened on *)
(* its own (empty before it is), last the last call and what it returned.  *)
(***************************************************************************)
NoPath == Path(<<>>, 0, 0, <<>>, "none")

Call(op) ==
    [op |-> op, path |-> NoPath, name |-> <<>>, index |-> LumpIndex(0, 0),
     exc |-> NoExc, found |-> FALSE, lump |-> NoLump, data |-> <<>>]

Init ==
    /\ files = <<>>
    /\ wad = <<>>
    /\ last = Call("none")

\* wad_manager.addWad(path).
addWad(path) ==
    /\ Len(files) < MaxFiles
    /\ \E r \in {vector_emplace_back(files, Disk(path))} :
           /\ files' = r.files
           /\ last' = [Call("addWad") EXCEPT !.path = path, !.exc = r.exc]
    /\ UNCHANGED wad

\* wad_manager.hasLump(name).
hasLump(name) ==
    /\ last' = [Call("hasLump") EXCEPT !.name = name,
                                       !.found = WadManager_hasLump(files, name)]
    /\ UNCHANGED <<files, wad>>

\* wad_manager.getLumpIndex(name).
getLumpIndex(name) ==
    /\ \E r \in {WadManager_getLumpIndex(files, name)} :
           last' = [Call("getLumpIndex") EXCEPT !.name = name, !.exc = r.exc,
                                                !.found = (r.exc = NoExc),
                                                !.index = r.index]
    /\ UNCHANGED <<files, wad>>

\* wad_manager.getLumpData(wad_manager.getLumpIndex(name) + inc): the handle
\* is one getLumpIndex returned, moved by inc, so its wad is an index of files.
getLumpData(name, inc) ==
    /\ WadManager_hasLump(files, name)
    /\ \E index \in LumpIndex_plus(WadManager_getLumpIndex(files, name).index, inc) :
         \E r \in {WadManager_getLumpData(files, index)} :
             /\ files' = r.files
             /\ last' = [Call("getLumpData") EXCEPT !.name = name, !.index = index,
                                                     !.exc = r.exc, !.data = r.lump_data]
    /\ UNCHANGED wad

\* wad_manager.getLumpData(name).
getLumpDataByName(name) ==
    /\ \E r \in {WadManager_getLumpDataByName(files, name)} :
           /\ files' = r.files
           /\ last' = [Call("getLumpDataByName") EXCEPT !.name = name, !.exc = r.exc,
                                                          !.data = r.lump_data]
    /\ UNCHANGED wad

Next ==
    \/ \E path \in ManagerPaths : addWad(path)
    \/ \E name \in Names : hasLump(name)
    \/ \E name \in Names : getLumpIndex(name)
    \/ \E name \in Names, inc \in Incs : getLumpData(name, inc)
    \/ \E name \in Names : getLumpDataByName(name)

Spec == Init /\ [][Next]_vars

(***************************************************************************)
(* A WadFile on its own: one file is opened, then asked.                   *)
(***************************************************************************)
\* WadFile wad{path}.
OpenWadFile(path) ==
    /\ wad = <<>>
    /\ last.op = "none"
    /\ \E c \in {WadFile_ctor(Disk(path))} :
           /\ wad' = IF c.exc = NoExc THEN <<c.file>> ELSE <<>>
           /\ last' = [Call("WadFile") EXCEPT !.path = path, !.exc = c.exc]
    /\ UNCHANGED files

\* wad.searchLump(name).
searchLump(name) ==
    /\ wad # <<>>
    /\ \E r \in {WadFile_searchLump(wad[1], name)} :
           last' = [last EXCEPT !.op = "searchLump", !.name = name, !.exc = NoExc,
                                !.found = r.has_value, !.index = LumpIndex(0, r.value),
                                !.lump = NoLump, !.data = <<>>]
    /\ UNCHANGED <<files, wad>>

\* wad.getLump(index).
getLump(index) ==
    /\ wad # <<>>
    /\ \E r \in {WadFile_getLump(wad[1], index)} :
           last' = [last EXCEPT !.op = "getLump", !.name = <<>>, !.exc = r.exc,
                                !.found = FALSE, !.index = LumpIndex(0, index),
                                !.lump = r.lump, !.data = <<>>]
    /\ UNCHANGED <<files, wad>>

\* wad.getLumpData(index).
getLumpDataAt(index) ==
    /\ wad # <<>>
    /\ \E r \in {WadFile_getLumpData(wad[1], index)} :
           /\ wad' = <<r.file>>
           /\ last' = [last EXCEPT !.op = "getLumpDataAt", !.name = <<>>, !.exc = r.exc,
                                   !.found = FALSE, !.index = LumpIndex(0, index),
                                   !.lump = NoLump, !.data = r.lump_data]
    /\ UNCHANGED files

NextWadFile ==
    \/ \E path \in AllPaths : OpenWadFile(path)
    \/ \E name \in Names : searchLump(name)
    \/ \E index \in Indexes : getLump(index)
    \/ \E index \in Indexes : getLumpDataAt(index)

SpecWadFile == Init /\ [][NextWadFile]_vars

(***************************************************************************)
(* What was written to the file that last.path names, stated without the   *)
(* reader: the descriptors in their on-disk order and the name each holds. *)
(***************************************************************************)
\* The characters of an 8-byte name field before its first nul.
Trimmed(field) ==
    LET k == CHOOSE k \in 0..Len(field) :
                 /\ \A j \in 1..k : field[j] # 0
                 /\ (k = Len(field) \/ field[k + 1] = 0)
    IN  SubSeq(field, 1, k)

\* The descriptors of the directory the header of path announces.
OnDisk(path) == SubSeq(path.entries, 1, Min(path.num_lumps, Len(path.entries)))

\* The on-disk places (from 1) of the descriptors named n.
Named(path, n) == {i \in 1..Len(OnDisk(path)) : Trimmed(OnDisk(path)[i].name) = n}

Least(S) == CHOOSE x \in S : \A y \in S : x <= y

Most(S) == CHOOSE x \in S : \A y \in S : y <= x

\* The bytes of the file at offsets [position, position + size).
FileRange(path, position, size) == SubSeq(Disk(path), position + 1, position + size)

InsideFile(path, entry) == entry.position + entry.size <= Len(Disk(path))

\* Every descriptor's data lies inside the file.
WellFormed(path) == \A i \in 1..Len(OnDisk(path)) : InsideFile(path, OnDisk(path)[i])

(***************************************************************************)
(* C3: in an opened archive, findByName(n) is the index of the first       *)
(* on-disk descriptor named n, whatever later descriptors share the name,  *)
(* and no index for a name no descriptor holds.                            *)
(***************************************************************************)
C3_FindByNameFirst ==
    wad # <<>> =>
        /\ \A n \in Names :
             LET r == WadFile_searchLump(wad[1], n)
             IN  IF Named(last.path, n) = {}
                 THEN ~r.has_value
                 ELSE r.has_value /\ r.value = Least(Named(last.path, n)) - 1
        /\ last.op = "searchLump" =>
             IF Named(last.path, last.name) = {}
             THEN ~last.found
             ELSE last.found /\ last.index.lump = Least(Named(last.path, last.name)) - 1

\* searchLump answered for a name that two descriptors hold.
C3_Witness ==
    /\ wad # <<>>
    /\ last.op = "searchLump"
    /\ last.found
    /\ Cardinality(Named(last.path, last.name)) >= 2
    /\ last.index.lump = 0

(***************************************************************************)
(* C6: in a well-formed archive, getData(index) of every valid index is    *)
(* the bytes of the file at [position, position + size) of that            *)
(* descriptor, as many as its size; a marker lump gives an empty buffer    *)
(* and no failure.                                                         *)
(***************************************************************************)
C6_GetDataIsFileRange ==
    (wad # <<>> /\ WellFormed(last.path)) =>
        /\ \A i \in 1..Len(OnDisk(last.path)) :
             LET e == OnDisk(last.path)[i]
                 g == WadFile_getLump(wad[1], i - 1)
                 d == WadFile_getLumpData(wad[1], i - 1)
             IN  /\ g.exc = NoExc
                 /\ g.lump.size = e.size
                 /\ d.exc = NoExc
                 /\ d.lump_data = FileRange(last.path, e.position, e.size)
                 /\ Len(d.lump_data) = g.lump.size
                 /\ isMarker(g.lump) => d.lump_data = <<>>
        /\ (last.op = "getLumpDataAt" /\ last.index.lump \in 0..(Len(OnDisk(last.path)) - 1)) =>
             LET e == OnDisk(last.path)[last.index.lump + 1]
             IN  /\ last.exc = NoExc
                 /\ last.data = FileRange(last.path, e.position, e.size)
                 /\ Len(last.data) = e.size

\* getLumpData returned the two bytes of a lump after an earlier call moved the
\* reader.
C6_Witness ==
    /\ wad # <<>>
    /\ WellFormed(last.path)
    /\ last.op = "getLumpDataAt"
    /\ last.index.lump = 1
    /\ last.exc = NoExc
    /\ Len(last.data) = 2
    /\ last.data = FileRange(last.path, DataOfs, 2)
    /\ OnDisk(last.path)[1].size = 0

HeaderRead(path) == path.cut \notin {"missing", "header"}

HeaderVerdict(path) ==
    IF path.tag # IWAD /\ path.tag # PWAD THEN "WAD contains invalid id"
    ELSE IF path.num_lumps <= 0 THEN "WAD contains invalid number of lumps"
    ELSE IF path.directory_ofs <= 0 THEN "WAD contains invalid directory offset"
    ELSE "none"

HeaderErrors ==
    {"WAD contains invalid id", "WAD contains invalid number of lumps",
     "WAD contains invalid directory offset"}

(***************************************************************************)
(* C7: once the 12 bytes of the header are read, the header is accepted    *)
(* exactly when its tag is "IWAD" or "PWAD", its lump count is positive    *)
(* and its directory offset is positive; otherwise the one error thrown is *)
(* the first of: invalid id, invalid number of lumps, invalid directory    *)
(* offset, and no archive is constructed.                                  *)
(***************************************************************************)
C7_HeaderValidation ==
    (last.op = "WadFile" /\ HeaderRead(last.path)) =>
        IF HeaderVerdict(last.path) # "none"
        THEN last.exc = Throw(HeaderVerdict(last.path), <<>>) /\ wad = <<>>
        ELSE /\ last.exc.what \notin HeaderErrors
             /\ wad # <<>> =>
                  wad[1].header = [id |-> last.path.tag,
                                   num_lumps |-> last.path.num_lumps,
                                   directory_ofs |-> last.path.directory_ofs]

\* A header with a good tag, a bad lump count and a bad offset was refused for
\* its lump count.
C7_Witness ==
    /\ last.op = "WadFile"
    /\ HeaderRead(last.path)
    /\ last.path.tag = PWAD
    /\ last.path.num_lumps <= 0
    /\ last.path.directory_ofs <= 0
    /\ last.exc = Throw("WAD contains invalid number of lumps", <<>>)
    /\ wad = <<>>

Negative(entry) == entry.position < 0 \/ entry.size < 0

BadPlaces(path) == {i \in 1..Len(OnDisk(path)) : Negative(OnDisk(path)[i])}

\* The descriptor at place i is whole in the file.
EntryRead(path, i) == DirectoryOfs + EntrySize * i <= Len(Disk(path))

LumpVerdict(entry) ==
    IF entry.position < 0
    THEN Throw("Lump contains invalid data offset!", Trimmed(entry.name))
    ELSE Throw("Lump contains invalid size!", Trimmed(entry.name))

(***************************************************************************)
(* C8: when the header is good and a descriptor of the directory has a     *)
(* negative position or size, construction fails at the first such         *)
(* descriptor, as soon as it is read, with the error naming it (the        *)
(* position is tested before the size), and no archive comes to exist, so  *)
(* none of the descriptors read before it can be seen.                     *)
(***************************************************************************)
C8_BadDescriptorFailsArchive ==
    (/\ last.op = "WadFile"
     /\ HeaderRead(last.path)
     /\ HeaderVerdict(last.path) = "none"
     /\ last.path.directory_ofs = DirectoryOfs
     /\ BadPlaces(last.path) # {}
     /\ EntryRead(last.path, Least(BadPlaces(last.path)))) =>
        /\ last.exc = LumpVerdict(OnDisk(last.path)[Least(BadPlaces(last.path))])
        /\ wad = <<>>

\* The second descriptor has a negative position and a negative size, the
\* first is valid: the error is the position's and names the second.
C8_Witness ==
    /\ last.op = "WadFile"
    /\ HeaderVerdict(last.path) = "none"
    /\ BadPlaces(last.path) = {2}
    /\ OnDisk(last.path)[2].position < 0
    /\ OnDisk(last.path)[2].size < 0
    /\ last.exc = Throw("Lump contains invalid data offset!", NameX)
    /\ wad = <<>>

(***************************************************************************)
(* The archives of a WadManager that hold a name, by their descriptors.    *)
(***************************************************************************)
\* The places (from 1) of the descriptors of file that are named n.
Holding(file, n) ==
    {i \in 1..Len(file.directory.lumps) : file.directory.lumps[i].name = n}

\* The places (from 1) in fs of the archives with a descriptor named n.
Owners(fs, n) == {w \in 1..Len(fs) : Holding(fs[w], n) # {}}

\* The handle of the first descriptor named n of the first archive holding it.
FirstInOrder(fs, n) ==
    LumpIndex(Least(Owners(fs, n)) - 1, Least(Holding(fs[Least(Owners(fs, n))], n)) - 1)

\* The handle of the first descriptor named n of the last archive holding it.
LastInOrder(fs, n) ==
    LumpIndex(Most(Owners(fs, n)) - 1, Least(Holding(fs[Most(Owners(fs, n))], n)) - 1)

BaseThenPatch(fs, n) ==
    /\ Len(fs) >= 2
    /\ fs[1].header.id = IWAD
    /\ fs[Len(fs)].header.id = PWAD
    /\ {1, Len(fs)} \subseteq Owners(fs, n)

(***************************************************************************)
(* C2: when an archive added first and an archive added later both hold a  *)
(* name, resolving the name and reading its data gives the lump of the     *)
(* archive added later.                                                    *)
(***************************************************************************)
C2_LaterArchiveOverrides ==
    /\ \A n \in Names :
         BaseThenPatch(files, n) =>
             WadManager_getLumpIndex(files, n).index = LastInOrder(files, n)
    /\ (/\ last.op = "getLumpDataByName"
        /\ last.exc = NoExc
        /\ BaseThenPatch(files, last.name)) =>
         LET h == LastInOrder(files, last.name)
             e == files[h.wad + 1].directory.lumps[h.lump + 1]
         IN  last.data = SubSeq(files[h.wad + 1].reader.bytes,
                                e.position + 1, e.position + e.size)

(***************************************************************************)
(* C4: an addWad that throws, for whatever reason, leaves the archives of  *)
(* the manager as they were, in number, order and content, so every        *)
(* resolve, contains and getData answers as before.                        *)
(***************************************************************************)
C4_FailedAddLeavesSet ==
    [][(last'.op = "addWad" /\ last'.exc # NoExc) =>
           /\ files' = files
           /\ \A n \in Names :
                /\ WadManager_searchLump(files', n) = WadManager_searchLump(files, n)
                /\ WadManager_getLumpDataByName(files', n).exc
                       = WadManager_getLumpDataByName(files, n).exc
                /\ WadManager_getLumpDataByName(files', n).lump_data
                       = WadManager_getLumpDataByName(files, n).lump_data]_vars

\* An addWad failed on the second descriptor of its file, after an archive was
\* added, and that archive is the only one.
C4_Witness ==
    /\ last.op = "addWad"
    /\ last.exc = Throw("Lump contains invalid data offset!", NameY)
    /\ Len(files) = 1
    /\ WadManager_hasLump(files, NameX)

Probes == Indexes \cup {MinSint32, MaxSint32}

OutOfRange(file, lump_index) ==
    lump_index \notin 0..(Len(file.directory.lumps) - 1)

C9_GetLumpRange ==
    \A w \in 1..Len(files), index \in Probes :
        LET g == WadFile_getLump(files[w], index)
        IN  IF OutOfRange(files[w], index)
            THEN g.exc = Throw("No valid lump index", <<>>)
            ELSE g.exc = NoExc /\ g.lump = files[w].directory.lumps[index + 1]

C9_OutOfRangeDataStep ==
    (last'.op = "getLumpData" /\ OutOfRange(files[last'.index.wad + 1], last'.index.lump)) =>
        /\ last'.exc = Throw("No valid lump index", <<>>)
        /\ last'.data = <<>>
        /\ files' = files

(***************************************************************************)
(* C9: getDescriptor(index) throws "No valid lump index" exactly when the  *)
(* index is outside [0, lump_count), and is the descriptor at that place   *)
(* otherwise; getData with an index outside the range, such as a handle    *)
(* moved by an increment, throws the same and leaves the reader untouched. *)
(***************************************************************************)
C9_IndexOutOfRange == []C9_GetLumpRange /\ [][C9_OutOfRangeDataStep]_vars

\* getLumpData was called with a handle moved one past the last descriptor.
C9_Witness ==
    /\ last.op = "getLumpData"
    /\ last.index.lump = Len(files[last.index.wad + 1].directory.lumps)
    /\ last.exc = Throw("No valid lump index", <<>>)

(***************************************************************************)
(* C10: whatever getData calls came before on an archive, failed ones      *)
(* among them, getData on a lump that lies inside the file succeeds and    *)
(* returns what it returns as the first call on the archive just opened.   *)
(***************************************************************************)
C10_GetDataAfterFailure ==
    wad # <<>> =>
        \A i \in 1..Len(OnDisk(last.path)) :
            InsideFile(last.path, OnDisk(last.path)[i]) =>
                LET now   == WadFile_getLumpData(wad[1], i - 1)
                    fresh == WadFile_getLumpData(WadFile_ctor(Disk(last.path)).file, i - 1)
                IN  /\ now.exc = NoExc
                    /\ now.exc = fresh.exc
                    /\ now.lump_data = fresh.lump_data

====
